---- MODULE Spec2Model ----
(***************************************************************************)
(* A model of the rlox scanner (src/src/scanner.rs) and of the error       *)
(* reporter it notifies (src/src/main.rs).                                 *)
(*                                                                         *)
(* A character is a one-element string; the source is a sequence of        *)
(* characters (Vec<char>).  `start` and `current` are 0-based as in the    *)
(* code, so the character at index i is source[i + 1] here.                *)
(***************************************************************************)
EXTENDS Integers, Sequences, FiniteSets, TLC

(***************************************************************************)
(* Characters and their classes.                                           *)
(***************************************************************************)
NL == "\n"
CR == "\r"
TAB == "\t"
SPACE == " "
QUOTE == "\""
BACKSLASH == "\\"
\* the sentinel peek() and peek_next() return at the end of the input
NUL == "\\0"
\* a character that is_numeric() but not is_digit(10): SUPERSCRIPT TWO
SUP2 == "U+00B2"

AsciiDigits == {"0", "1", "2", "3", "4", "5", "6", "7", "8", "9"}

Lowercase ==
    {"a", "b", "c", "d", "e", "f", "g", "h", "i", "j", "k", "l", "m",
     "n", "o", "p", "q", "r", "s", "t", "u", "v", "w", "x", "y", "z"}

Uppercase ==
    {"A", "B", "C", "D", "E", "F", "G", "H", "I", "J", "K", "L", "M",
     "N", "O", "P", "Q", "R", "S", "T", "U", "V", "W", "X", "Y", "Z"}

\* char::is_digit(10): the ASCII digits only
is_digit(c) == c \in AsciiDigits

\* char::is_alphabetic()
is_alphabetic(c) == c \in Lowercase \cup Uppercase

\* char::is_numeric(): the ASCII digits and the other Unicode numbers
is_numeric(c) == c \in AsciiDigits \cup {SUP2}

\* char::is_alphanumeric() == is_alphabetic() || is_numeric()
is_alphanumeric(c) == is_alphabetic(c) \/ is_numeric(c)

(***************************************************************************)
(* Tokens.  A literal is None, Str(text) or Number(value); the three       *)
(* variants share one record shape so that tokens can be compared.         *)
(* A number value is <<m, e>>, standing for m / 10^e with e minimal.       *)
(***************************************************************************)
NoLiteral == [kind |-> "None", str |-> <<>>, num |-> <<0, 0>>]

StrLiteral(text) == [kind |-> "Str", str |-> text, num |-> <<0, 0>>]

NumberLiteral(value) == [kind |-> "Number", str |-> <<>>, num |-> value]

Token(token_type, text, literal) ==
    [type |-> token_type, lexeme |-> text, literal |-> literal]

EOFToken == Token("EOF", <<>>, NoLiteral)

\* the keyword table built by Scanner::new
keywords ==
    {<< <<"a", "n", "d">>, "And" >>,
     << <<"c", "l", "a", "s", "s">>, "Class" >>,
     << <<"e", "l", "s", "e">>, "Else" >>,
     << <<"f", "a", "l", "s", "e">>, "False" >>,
     << <<"f", "o", "r">>, "For" >>,
     << <<"f", "u", "n">>, "Fun" >>,
     << <<"i", "f">>, "If" >>,
     << <<"n", "i", "l">>, "Nil" >>,
     << <<"o", "r">>, "Or" >>,
     << <<"p", "r", "i", "n", "t">>, "Print" >>,
     << <<"r", "e", "t", "u", "r", "n">>, "Return" >>,
     << <<"s", "u", "p", "e", "r">>, "Super" >>,
     << <<"t", "h", "i", "s">>, "This" >>,
     << <<"t", "r", "u", "e">>, "True" >>,
     << <<"v", "a", "r">>, "Var" >>,
     << <<"w", "h", "i", "l", "e">>, "While" >>}

\* a slip: a lexeme that begins with a reserved word takes its kind
keyword_or_identifier_by_prefix(text) ==
    IF \E kw \in keywords :
          Len(kw[1]) <= Len(text) /\ SubSeq(text, 1, Len(kw[1])) = kw[1]
    THEN (CHOOSE kw \in keywords :
              Len(kw[1]) <= Len(text) /\ SubSeq(text, 1, Len(kw[1])) = kw[1])[2]
    ELSE "Identifier"

\* keywords.get(text).unwrap_or(&TokenType::Identifier)
keyword_or_identifier(text) ==
    IF \E kw \in keywords : kw[1] = text
    THEN (CHOOSE kw \in keywords : kw[1] = text)[2]
    ELSE "Identifier"

\* the ten one-character arms of the match in scan_token
SingleCharTokens ==
    {<<"(", "LeftParen">>, <<")", "RightParen">>, <<"{", "LeftBrace">>,
     <<"}", "RightBrace">>, <<",", "Comma">>, <<".", "Dot">>,
     <<"-", "Minus">>, <<"+", "Plus">>, <<";", "Semicolon">>,
     <<"*", "Star">>}

\* the four arms with a one-character lookahead: <<c, two-char kind, one-char kind>>
TwoCharTokens ==
    {<<"!", "BangEqual", "Bang">>, <<"=", "EqualEqual", "Equal">>,
     <<"<", "LessEqual", "Less">>, <<">", "GreaterEqual", "Greater">>}

(***************************************************************************)
(* str::parse::<f64>() on the texts number() can collect: a text over      *)
(* the ASCII digits and '.', with at most one '.' and at least one digit,  *)
(* parses to its decimal value; any other text over these characters is    *)
(* an error.  The value is kept exact (texts are far shorter than the 15   *)
(* significant digits an f64 holds).                                       *)
(***************************************************************************)
DigitValue(c) ==
    CASE c = "0" -> 0 [] c = "1" -> 1 [] c = "2" -> 2 [] c = "3" -> 3
      [] c = "4" -> 4 [] c = "5" -> 5 [] c = "6" -> 6 [] c = "7" -> 7
      [] c = "8" -> 8 [] c = "9" -> 9

RECURSIVE DecimalValue(_)
DecimalValue(digits) ==
    IF digits = <<>> THEN 0
    ELSE 10 * DecimalValue(SubSeq(digits, 1, Len(digits) - 1))
         + DigitValue(digits[Len(digits)])

RECURSIVE StripTrailingZeros(_)
StripTrailingZeros(digits) ==
    IF digits # <<>> /\ digits[Len(digits)] = "0"
    THEN StripTrailingZeros(SubSeq(digits, 1, Len(digits) - 1))
    ELSE digits

DotPositions(text) == {i \in 1..Len(text) : text[i] = "."}

parse_f64(text) ==
    LET dots == DotPositions(text)
        wellFormed == /\ \A i \in 1..Len(text) : is_digit(text[i]) \/ text[i] = "."
                      /\ Cardinality(dots) <= 1
                      /\ \E i \in 1..Len(text) : is_digit(text[i])
    IN  IF ~wellFormed THEN [ok |-> FALSE, num |-> <<0, 0>>]
        ELSE LET dot == IF dots = {} THEN Len(text) + 1 ELSE CHOOSE i \in dots : TRUE
                 int == SubSeq(text, 1, dot - 1)
                 frac == StripTrailingZeros(SubSeq(text, dot + 1, Len(text)))
             IN  [ok |-> TRUE, num |-> <<DecimalValue(int \o frac), Len(frac)>>]

(***************************************************************************)
(* Bounds and inputs.                                                      *)
(***************************************************************************)
\* longest input over the general alphabet
MaxLen == 3
\* longest input over each of the focused alphabets
MaxFocusLen == 4
\* number of calls of scan_tokens on one Scanner
MaxCalls == 2
\* longest file or standard input given to the driver
MaxDriverLen == 3
\* largest number of command-line arguments, the program name included
MaxArgs == 3

Alphabet == {".", "!", "=", "/", QUOTE, SPACE, NL, "1", "a", "@"}

NumberChars == {"1", "5", ".", "a"}
CommentChars == {"/", NL, "@", "1", QUOTE}
StringChars == {QUOTE, BACKSLASH, NL, "a"}
OperatorChars == {"!", "=", "<", ">", "("}
IdentifierChars == {"o", "r", "_", "7", SUP2}

DriverChars == {"1", ".", "/", QUOTE, "a", NL, "@"}

StringsOver(chars, n) == UNION {[1..k -> chars] : k \in 0..n}

\* the inputs the specification's examples name, and a few longer ones
Examples ==
    {<<"1", "2", "3", ".">>,
     <<"1", "2", "3", ".", "4", "5", "6">>,
     <<"1", "2", "3">>,
     <<"1", ".", "5", ".", "3">>,
     <<"/", "/", " ", "c", "o", "m", "m", "e", "n", "t", NL, "1", "2", "3">>,
     <<QUOTE, "h", "e", "l", "l", "o", QUOTE>>,
     <<QUOTE, "h", "e", "l", "l", "o">>,
     <<"a", NL, QUOTE, "b", NL, "c">>,
     <<QUOTE, "a", BACKSLASH, QUOTE, "b", QUOTE>>,
     <<"v", "a", "r", SPACE, "x", "=", "1", "@", ";">>,
     <<"(", ")", "{", "}", ",", ".", "-", "+", ";", "*">>,
     <<"!", "=", "=", "=", "<", "=", ">", "=", "!", "<", ">", "=">>,
     <<"a", CR, TAB, "b">>,
     <<"A", "n", "d">>,
     <<"/", "/", "@", QUOTE, NL, "1">>,
     <<"!", "<", "=", ">">>,
     <<"a", "n", "d">>, <<"c", "l", "a", "s", "s">>, <<"e", "l", "s", "e">>,
     <<"f", "a", "l", "s", "e">>, <<"f", "o", "r">>, <<"f", "u", "n">>,
     <<"i", "f">>, <<"n", "i", "l">>, <<"o", "r">>,
     <<"p", "r", "i", "n", "t">>, <<"r", "e", "t", "u", "r", "n">>,
     <<"s", "u", "p", "e", "r">>, <<"t", "h", "i", "s">>,
     <<"t", "r", "u", "e">>, <<"v", "a", "r">>, <<"w", "h", "i", "l", "e">>,
     <<"o", "r", "c", "h", "i", "d">>,
     <<"n", "i", "l", "_">>,
     <<"i", "f", SPACE, "i", "f", "f", SPACE, "I", "F">>,
     <<QUOTE, QUOTE>>,
     <<"/", "/", NL, QUOTE, NL, QUOTE, NL, "@">>}

Inputs ==
    StringsOver(Alphabet, MaxLen)
    \cup StringsOver(NumberChars, MaxFocusLen)
    \cup StringsOver(CommentChars, MaxFocusLen)
    \cup StringsOver(StringChars, MaxFocusLen)
    \cup StringsOver(OperatorChars, MaxFocusLen)
    \cup StringsOver(IdentifierChars, MaxFocusLen)
    \cup Examples

(***************************************************************************)
(* State.                                                                  *)
(***************************************************************************)
VARIABLES
    source,     \* Scanner.source
    tokens,     \* Scanner.tokens
    start,      \* Scanner.start
    current,    \* Scanner.current
    line_no,    \* Scanner.line_no
    had_error,  \* ErrorReporter.had_error
    stderr,     \* the diagnostics report() has printed, in order
    pc,         \* the position of the scanner in its code
    panicked,   \* an index or a slice went out of bounds
    calls,      \* number of calls of scan_tokens so far
    returned,   \* the token sequences the calls have returned, in order
    spans,      \* history: <<start, current>> at each add_token
    main_pc,    \* the position of main, or "library": the Scanner used alone
    args_len,   \* args.len()
    file,       \* what reading the script file gives
    stdin,      \* the characters of standard input not read yet
    prompts,    \* number of "> " printed
    printed,    \* the tokens run() has printed, in order
    io_error,   \* main has printed "Error: {e}" for a failed read
    flag_reads, \* number of times main has read had_error
    exit_status \* the status the process ended with, NotExited before

scanner_vars == <<source, tokens, start, current, line_no, had_error, stderr,
                  pc, panicked, calls, returned, spans>>

driver_vars == <<main_pc, args_len, file, stdin, prompts, printed, io_error,
                 flag_reads, exit_status>>

vars == <<scanner_vars, driver_vars>>

\* the state as one value, so that the code's functions are operators on it
Sc ==
    [source |-> source, tokens |-> tokens, start |-> start,
     current |-> current, line_no |-> line_no, had_error |-> had_error,
     stderr |-> stderr, pc |-> pc, panicked |-> panicked, calls |-> calls,
     returned |-> returned, spans |-> spans]

ScannerBecomes(s) ==
    /\ source' = s.source
    /\ tokens' = s.tokens
    /\ start' = s.start
    /\ current' = s.current
    /\ line_no' = s.line_no
    /\ had_error' = s.had_error
    /\ stderr' = s.stderr
    /\ pc' = s.pc
    /\ panicked' = s.panicked
    /\ calls' = s.calls
    /\ returned' = s.returned
    /\ spans' = s.spans

\* a step of the scanner: the driver waits for scan_tokens to return
Becomes(s) == ScannerBecomes(s) /\ UNCHANGED driver_vars

\* no exit status yet
NotExited == -1

\* the outcomes of std::fs::read and String::from_utf8 in run_file
NoFile == [kind |-> "none", text |-> <<>>]

FileResults ==
    {[kind |-> "read_error", text |-> <<>>], [kind |-> "not_utf8", text |-> <<>>]}
    \cup {[kind |-> "ok", text |-> src] : src \in StringsOver(DriverChars, MaxDriverLen)}

\* Scanner::new over a fresh ErrorReporter
new(src) ==
    [source |-> src, tokens |-> <<>>, start |-> 0, current |-> 0,
     line_no |-> 1, had_error |-> FALSE, stderr |-> <<>>, pc |-> "idle",
     panicked |-> FALSE, calls |-> 0, returned |-> <<>>, spans |-> <<>>]

Init ==
    \E src \in Inputs :
        /\ source = src
        /\ tokens = new(src).tokens
        /\ start = new(src).start
        /\ current = new(src).current
        /\ line_no = new(src).line_no
        /\ had_error = new(src).had_error
        /\ stderr = new(src).stderr
        /\ pc = new(src).pc
        /\ panicked = new(src).panicked
        /\ calls = new(src).calls
        /\ returned = new(src).returned
        /\ spans = new(src).spans
        /\ main_pc = "library"
        /\ args_len = 0
        /\ file = NoFile
        /\ stdin = <<>>
        /\ prompts = 0
        /\ printed = <<>>
        /\ io_error = FALSE
        /\ flag_reads = 0
        /\ exit_status = NotExited

(***************************************************************************)
(* The functions of main.rs and scanner.rs, as operators on the state.     *)
(***************************************************************************)
\* ErrorReporter::set_error
set_error(s) == [s EXCEPT !.had_error = TRUE]

\* a slip: the line is printed but the flag is not set
report_without_set_error(s, n, location, message) ==
    [s EXCEPT !.stderr =
        Append(@, [line |-> n, location |-> location, message |-> message])]

\* report: one line "[line N] Error{location}: {message}" on stderr
report(s, n, location, message) ==
    set_error([s EXCEPT !.stderr =
        Append(@, [line |-> n, location |-> location, message |-> message])])

error(s, n, message) == report(s, n, "", message)

\* source[i], which panics out of bounds
InBounds(s, i) == 0 <= i /\ i < Len(s.source)

CharAt(s, i) == IF InBounds(s, i) THEN s.source[i + 1] ELSE NUL

\* source[a..b], which panics unless a <= b <= len
SliceOk(s, a, b) == 0 <= a /\ a <= b /\ b <= Len(s.source)

Slice(s, a, b) == SubSeq(s.source, a + 1, b)

is_at_end(s) == s.current >= Len(s.source)

\* advance: the character read is CharAt(s, s.current)
advance(s) ==
    IF InBounds(s, s.current)
    THEN [s EXCEPT !.current = @ + 1]
    ELSE [s EXCEPT !.panicked = TRUE]

\* a slip: the token is inserted at the front of the list
add_token_at_front(s, token_type, literal) ==
    IF SliceOk(s, s.start, s.current)
    THEN [s EXCEPT
            !.tokens = <<Token(token_type, Slice(s, s.start, s.current), literal)>> \o @,
            !.spans = <<<<s.start, s.current>>>> \o @]
    ELSE [s EXCEPT !.panicked = TRUE]

add_token(s, token_type, literal) ==
    IF SliceOk(s, s.start, s.current)
    THEN [s EXCEPT
            !.tokens = Append(@, Token(token_type, Slice(s, s.start, s.current), literal)),
            !.spans = Append(@, <<s.start, s.current>>)]
    ELSE [s EXCEPT !.panicked = TRUE]

\* next_match: the result and the state after it
\* a slip: the matched character is not consumed
next_match_without_consuming(s, expected) ==
    IF is_at_end(s) THEN [matched |-> FALSE, s |-> s]
    ELSE IF s.source[s.current + 1] # expected THEN [matched |-> FALSE, s |-> s]
    ELSE [matched |-> TRUE, s |-> s]

next_match(s, expected) ==
    IF is_at_end(s) THEN [matched |-> FALSE, s |-> s]
    ELSE IF s.source[s.current + 1] # expected THEN [matched |-> FALSE, s |-> s]
    ELSE [matched |-> TRUE, s |-> [s EXCEPT !.current = @ + 1]]

peek(s) == IF is_at_end(s) THEN NUL ELSE s.source[s.current + 1]

peek_next(s) ==
    IF s.current + 1 >= Len(s.source) THEN NUL ELSE s.source[s.current + 2]

\* the position scan_token returns to: the loop test of scan_tokens
Return(s) == [s EXCEPT !.pc = "scan_tokens"]

(***************************************************************************)
(* string(): one iteration of its loop, and its two exits.                 *)
(***************************************************************************)
string_continues(s) == peek(s) # QUOTE /\ ~is_at_end(s)

\* a slip: newlines inside a string are not counted
string_loop_ignores_newline(s) == advance(s)

string_loop(s) ==
    advance(IF peek(s) = NL THEN [s EXCEPT !.line_no = @ + 1] ELSE s)

string_unterminated(s) ==
    Return(error(s, s.line_no, "Unterminated string."))

\* a slip: the value keeps the closing quote
string_close_keeps_quote(s) ==
    LET t == advance(s)
    IN  IF t.panicked THEN t
        ELSE IF ~SliceOk(t, t.start + 1, t.current)
        THEN [t EXCEPT !.panicked = TRUE]
        ELSE Return(add_token(t, "String",
                 StrLiteral(Slice(t, t.start + 1, t.current))))

string_close(s) ==
    LET t == advance(s)
    IN  IF t.panicked THEN t
        ELSE IF ~SliceOk(t, t.start + 1, t.current - 1)
        THEN [t EXCEPT !.panicked = TRUE]
        ELSE Return(add_token(t, "String",
                 StrLiteral(Slice(t, t.start + 1, t.current - 1))))

(***************************************************************************)
(* number(): the two digit loops, the test for a fraction, the parse.      *)
(***************************************************************************)
number_int_loop(s) == advance(s)

\* a slip: the `.` is consumed without a look at what follows it
number_fraction_takes_any_dot(s) ==
    IF peek(s) = "."
    THEN [advance(s) EXCEPT !.pc = "number_frac"]
    ELSE [s EXCEPT !.pc = "number_parse"]

\* a slip: the `.` and the character after it are taken unseen
number_fraction_skips_two(s) ==
    IF peek(s) = "."
    THEN [s EXCEPT !.current = @ + 2, !.pc = "number_frac"]
    ELSE [s EXCEPT !.pc = "number_parse"]

number_fraction(s) ==
    IF peek(s) = "." /\ is_digit(peek_next(s))
    THEN [advance(s) EXCEPT !.pc = "number_frac"]
    ELSE [s EXCEPT !.pc = "number_parse"]

number_frac_loop(s) == advance(s)

\* a slip: after a fraction the scanner looks for another one
number_frac_end_rescans(s) == [s EXCEPT !.pc = "number"]

number_frac_end(s) == [s EXCEPT !.pc = "number_parse"]

number_parse(s) ==
    IF ~SliceOk(s, s.start, s.current) THEN [s EXCEPT !.panicked = TRUE]
    ELSE LET value == Slice(s, s.start, s.current)
             parsed == parse_f64(value)
         IN  IF parsed.ok
             THEN Return(add_token(s, "Number", NumberLiteral(parsed.num)))
             ELSE Return(error(s, s.line_no, "Invalid numeric literal."))

(***************************************************************************)
(* identifier(): its loop and the keyword lookup.                          *)
(***************************************************************************)
identifier_continues(s) == is_alphanumeric(peek(s)) \/ peek(s) = "_"

identifier_loop(s) == advance(s)

identifier_end(s) ==
    IF ~SliceOk(s, s.start, s.current) THEN [s EXCEPT !.panicked = TRUE]
    ELSE LET text == Slice(s, s.start, s.current)
         IN  Return(add_token(s, keyword_or_identifier(text), NoLiteral))

(***************************************************************************)
(* scan_token: advance and the match on the character read.                *)
(***************************************************************************)
\* a slip: the comment runs over the newline, to the end of the input
comment_continues_past_newline(s) == ~is_at_end(s)

\* a slip: the end of the input is not tested
comment_continues_ignores_end(s) == peek(s) # NL

comment_continues(s) == peek(s) # NL /\ ~is_at_end(s)

\* a slip: the newline is skipped like the other whitespace
newline_not_counted(s) == Return(s)

\* the '\n' arm of the match
newline(s) == Return([s EXCEPT !.line_no = @ + 1])

\* a slip: the first error ends the scan
unexpected_character_halts(s) ==
    Return(error([s EXCEPT !.current = Len(s.source)], s.line_no,
                 "Unexpected character."))

\* the last arm of the match: neither a digit nor a letter nor '_'
unexpected_character(s) == Return(error(s, s.line_no, "Unexpected character."))

comment_loop(s) == advance(s)

comment_end(s) == Return(s)

scan_token(s) ==
    LET c == CharAt(s, s.current)
        t == advance(s)
    IN  IF t.panicked THEN t
        ELSE IF \E p \in SingleCharTokens : p[1] = c
        THEN Return(add_token(t, (CHOOSE p \in SingleCharTokens : p[1] = c)[2], NoLiteral))
        ELSE IF \E p \in TwoCharTokens : p[1] = c
        THEN LET p == CHOOSE q \in TwoCharTokens : q[1] = c
                 next == next_match(t, "=")
             IN  Return(add_token(next.s, IF next.matched THEN p[2] ELSE p[3], NoLiteral))
        ELSE IF c = "/"
        THEN LET next == next_match(t, "/")
             IN  IF next.matched
                 THEN [next.s EXCEPT !.pc = "comment"]
                 ELSE Return(add_token(next.s, "Slash", NoLiteral))
        ELSE IF c = QUOTE THEN [t EXCEPT !.pc = "string"]
        ELSE IF c \in {SPACE, CR, TAB} THEN Return(t)
        ELSE IF c = NL THEN newline(t)
        ELSE IF is_digit(c) THEN [t EXCEPT !.pc = "number"]
        ELSE IF is_alphabetic(c) \/ c = "_" THEN [t EXCEPT !.pc = "identifier"]
        ELSE unexpected_character(t)

(***************************************************************************)
(* scan_tokens: the call, one test of its loop, and its return.            *)
(***************************************************************************)
call_scan_tokens(s) == [s EXCEPT !.pc = "scan_tokens", !.calls = @ + 1]

\* a slip: the start of the lexeme is not moved to the cursor
scan_tokens_loop_keeps_start(s) == [s EXCEPT !.pc = "scan_token"]

scan_tokens_loop(s) == [s EXCEPT !.start = s.current, !.pc = "scan_token"]

\* a slip: the sequence is returned without the end-of-input token
scan_tokens_return_without_eof(s) ==
    [s EXCEPT !.returned = Append(@, s.tokens), !.pc = "idle"]

scan_tokens_return(s) ==
    LET t == [s EXCEPT !.tokens = Append(@, EOFToken)]
    IN  [t EXCEPT !.returned = Append(@, t.tokens), !.pc = "idle"]

(***************************************************************************)
(* The step the scanner takes from a state; Running says there is one.     *)
(***************************************************************************)
Running(s) == s.pc # "idle" /\ ~s.panicked

Step(s) ==
    CASE s.pc = "scan_tokens" ->
            IF is_at_end(s) THEN scan_tokens_return(s) ELSE scan_tokens_loop(s)
      [] s.pc = "scan_token" -> scan_token(s)
      [] s.pc = "comment" ->
            IF comment_continues(s) THEN comment_loop(s) ELSE comment_end(s)
      [] s.pc = "string" ->
            IF string_continues(s) THEN string_loop(s)
            ELSE IF is_at_end(s) THEN string_unterminated(s)
            ELSE string_close(s)
      [] s.pc = "number" ->
            IF is_digit(peek(s)) THEN number_int_loop(s) ELSE number_fraction(s)
      [] s.pc = "number_frac" ->
            IF is_digit(peek(s)) THEN number_frac_loop(s) ELSE number_frac_end(s)
      [] s.pc = "number_parse" -> number_parse(s)
      [] s.pc = "identifier" ->
            IF identifier_continues(s) THEN identifier_loop(s) ELSE identifier_end(s)

RECURSIVE Run(_)
Run(s) == IF Running(s) THEN Run(Step(s)) ELSE s

\* the token sequence one call of scan_tokens returns for the input src
ScanOf(src) == Run(call_scan_tokens(new(src))).tokens

(***************************************************************************)
(* Actions: one per step of the code.                                      *)
(***************************************************************************)
At(label) == pc = label /\ ~panicked

Call ==
    /\ At("idle")
    /\ calls < MaxCalls
    /\ Becomes(call_scan_tokens(Sc))

ScanTokensLoop ==
    /\ At("scan_tokens")
    /\ ~is_at_end(Sc)
    /\ Becomes(scan_tokens_loop(Sc))

ScanTokensReturn ==
    /\ At("scan_tokens")
    /\ is_at_end(Sc)
    /\ Becomes(scan_tokens_return(Sc))

ScanToken ==
    /\ At("scan_token")
    /\ Becomes(scan_token(Sc))

CommentLoop ==
    /\ At("comment")
    /\ comment_continues(Sc)
    /\ Becomes(comment_loop(Sc))

CommentEnd ==
    /\ At("comment")
    /\ ~comment_continues(Sc)
    /\ Becomes(comment_end(Sc))

StringLoop ==
    /\ At("string")
    /\ string_continues(Sc)
    /\ Becomes(string_loop(Sc))

StringUnterminated ==
    /\ At("string")
    /\ ~string_continues(Sc)
    /\ is_at_end(Sc)
    /\ Becomes(string_unterminated(Sc))

StringClose ==
    /\ At("string")
    /\ ~string_continues(Sc)
    /\ ~is_at_end(Sc)
    /\ Becomes(string_close(Sc))

NumberIntLoop ==
    /\ At("number")
    /\ is_digit(peek(Sc))
    /\ Becomes(number_int_loop(Sc))

NumberFraction ==
    /\ At("number")
    /\ ~is_digit(peek(Sc))
    /\ Becomes(number_fraction(Sc))

NumberFracLoop ==
    /\ At("number_frac")
    /\ is_digit(peek(Sc))
    /\ Becomes(number_frac_loop(Sc))

NumberFracEnd ==
    /\ At("number_frac")
    /\ ~is_digit(peek(Sc))
    /\ Becomes(number_frac_end(Sc))

NumberParse ==
    /\ At("number_parse")
    /\ Becomes(number_parse(Sc))

IdentifierLoop ==
    /\ At("identifier")
    /\ identifier_continues(Sc)
    /\ Becomes(identifier_loop(Sc))

IdentifierEnd ==
    /\ At("identifier")
    /\ ~identifier_continues(Sc)
    /\ Becomes(identifier_end(Sc))

Next ==
    \/ Call
    \/ ScanTokensLoop
    \/ ScanTokensReturn
    \/ ScanToken
    \/ CommentLoop
    \/ CommentEnd
    \/ StringLoop
    \/ StringUnterminated
    \/ StringClose
    \/ NumberIntLoop
    \/ NumberFraction
    \/ NumberFracLoop
    \/ NumberFracEnd
    \/ NumberParse
    \/ IdentifierLoop
    \/ IdentifierEnd

Spec == Init /\ [][Next]_vars

(***************************************************************************)
(* The driver: main, run_file, run_prompt and run of main.rs.              *)
(***************************************************************************)
\* main: args.len() > 2
wrong_usage(n) == n > 2

\* a slip: the flag is not looked at
exit_code_always_success(flag) == 0

\* main: exit(65) if had_error, else Ok(())
exit_code(flag) == IF flag THEN 65 ELSE 0

\* stdin.read_line: the characters up to the first newline, newline included
read_line(stream) ==
    IF \E i \in 1..Len(stream) : stream[i] = NL
    THEN SubSeq(stream, 1, CHOOSE i \in 1..Len(stream) :
                               /\ stream[i] = NL
                               /\ \A j \in 1..(i - 1) : stream[j] # NL)
    ELSE stream

\* a slip: a line with nothing but its newline ends the loop too
prompt_ends_on_blank_line(input) == input = <<>> \/ input = <<NL>>

\* run_prompt: input.is_empty()
prompt_ends(input) == input = <<>>

\* a slip: each scan gets a reporter of its own
run_with_fresh_reporter(s, src) == call_scan_tokens(new(src))

\* run: a new Scanner over the source and the shared reporter, and its
\* scan_tokens called
run(s, src) ==
    call_scan_tokens([new(src) EXCEPT !.had_error = s.had_error,
                                      !.stderr = s.stderr])

DriverInit ==
    /\ source = new(<<>>).source
    /\ tokens = new(<<>>).tokens
    /\ start = new(<<>>).start
    /\ current = new(<<>>).current
    /\ line_no = new(<<>>).line_no
    /\ had_error = FALSE
    /\ stderr = <<>>
    /\ pc = new(<<>>).pc
    /\ panicked = FALSE
    /\ calls = 0
    /\ returned = <<>>
    /\ spans = <<>>
    /\ main_pc = "main"
    /\ prompts = 0
    /\ printed = <<>>
    /\ io_error = FALSE
    /\ flag_reads = 0
    /\ exit_status = NotExited
    /\ args_len \in 1..MaxArgs
    /\ \/ args_len = 2 /\ file \in FileResults /\ stdin = <<>>
       \/ args_len < 2 /\ file = NoFile
                       /\ stdin \in StringsOver(DriverChars, MaxDriverLen)
       \/ args_len > 2 /\ file = NoFile /\ stdin = <<>>

\* main: wrong number of arguments, exit(64)
MainUsage ==
    /\ main_pc = "main"
    /\ wrong_usage(args_len)
    /\ main_pc' = "exited"
    /\ exit_status' = 64
    /\ UNCHANGED <<scanner_vars, args_len, file, stdin, prompts, printed,
                   io_error, flag_reads>>

\* main -> run_file -> run: the file is read and its scan begins
RunFile ==
    /\ main_pc = "main"
    /\ ~wrong_usage(args_len)
    /\ args_len = 2
    /\ file.kind = "ok"
    /\ ScannerBecomes(run(Sc, file.text))
    /\ main_pc' = "run"
    /\ UNCHANGED <<args_len, file, stdin, prompts, printed, io_error,
                   flag_reads, exit_status>>

\* main -> run_file: the read or the decoding fails, main prints the error
\* and sets the flag
RunFileFails ==
    /\ main_pc = "main"
    /\ ~wrong_usage(args_len)
    /\ args_len = 2
    /\ file.kind # "ok"
    /\ ScannerBecomes(set_error(Sc))
    /\ main_pc' = "check"
    /\ io_error' = TRUE
    /\ UNCHANGED <<args_len, file, stdin, prompts, printed, flag_reads,
                   exit_status>>

\* main -> run_prompt
MainPrompt ==
    /\ main_pc = "main"
    /\ ~wrong_usage(args_len)
    /\ args_len # 2
    /\ main_pc' = "prompt"
    /\ UNCHANGED <<scanner_vars, args_len, file, stdin, prompts, printed,
                   io_error, flag_reads, exit_status>>

\* run_prompt: the prompt, a line read, and its scan begins
PromptLine ==
    /\ main_pc = "prompt"
    /\ ~prompt_ends(read_line(stdin))
    /\ ScannerBecomes(run(Sc, read_line(stdin)))
    /\ stdin' = SubSeq(stdin, Len(read_line(stdin)) + 1, Len(stdin))
    /\ prompts' = prompts + 1
    /\ main_pc' = "run"
    /\ UNCHANGED <<args_len, file, printed, io_error, flag_reads, exit_status>>

\* run_prompt: the prompt, an empty read, break
PromptEnd ==
    /\ main_pc = "prompt"
    /\ prompt_ends(read_line(stdin))
    /\ prompts' = prompts + 1
    /\ main_pc' = "check"
    /\ UNCHANGED <<scanner_vars, args_len, file, stdin, printed, io_error,
                   flag_reads, exit_status>>

\* run_prompt: flush or read_line fails, the error goes up to main, which
\* prints it and sets the flag
PromptFails ==
    /\ main_pc = "prompt"
    /\ ScannerBecomes(set_error(Sc))
    /\ prompts' = prompts + 1
    /\ main_pc' = "check"
    /\ io_error' = TRUE
    /\ UNCHANGED <<args_len, file, stdin, printed, flag_reads, exit_status>>

\* run: scan_tokens has returned, its tokens are printed
RunPrint ==
    /\ main_pc = "run"
    /\ At("idle")
    /\ printed' = printed \o returned[Len(returned)]
    /\ main_pc' = IF args_len = 2 THEN "check" ELSE "prompt"
    /\ UNCHANGED <<scanner_vars, args_len, file, stdin, prompts, io_error,
                   flag_reads, exit_status>>

\* main: the flag is read, exit(65) or Ok(())
MainExit ==
    /\ main_pc = "check"
    /\ flag_reads' = flag_reads + 1
    /\ exit_status' = exit_code(had_error)
    /\ main_pc' = "exited"
    /\ UNCHANGED <<scanner_vars, args_len, file, stdin, prompts, printed,
                   io_error>>

DriverNext ==
    \/ MainUsage
    \/ RunFile
    \/ RunFileFails
    \/ MainPrompt
    \/ PromptLine
    \/ PromptEnd
    \/ PromptFails
    \/ RunPrint
    \/ MainExit
    \/ ScanTokensLoop
    \/ ScanTokensReturn
    \/ ScanToken
    \/ CommentLoop
    \/ CommentEnd
    \/ StringLoop
    \/ StringUnterminated
    \/ StringClose
    \/ NumberIntLoop
    \/ NumberFraction
    \/ NumberFracLoop
    \/ NumberFracEnd
    \/ NumberParse
    \/ IdentifierLoop
    \/ IdentifierEnd

DriverSpec == DriverInit /\ [][DriverNext]_vars

(***************************************************************************)
(* Vocabulary of the properties.                                           *)
(***************************************************************************)
Last(seq) == seq[Len(seq)]

\* the first call of scan_tokens has returned and no other has begun
FirstScanDone == pc = "idle" /\ calls = 1 /\ Len(returned) = 1

\* scan_token is about to read the character c
Dispatching(c) == pc = "scan_token" /\ ~panicked /\ CharAt(Sc, current) = c

\* the character starts no lexeme: no arm of the match but the last takes it
StartsNoLexeme(c) ==
    c \notin {"(", ")", "{", "}", ",", ".", "-", "+", ";", "*",
              "!", "=", "<", ">", "/", QUOTE, SPACE, CR, TAB, NL, "_"}
              \cup AsciiDigits \cup Lowercase \cup Uppercase

NewlinesIn(seq) == Cardinality({i \in 1..Len(seq) : seq[i] = NL})

UnexpectedCharacter(n) ==
    [line |-> n, location |-> "", message |-> "Unexpected character."]

UnterminatedString(n) ==
    [line |-> n, location |-> "", message |-> "Unterminated string."]

ReplaceAt(seq, i, c) == [seq EXCEPT ![i] = c]

DeleteAt(seq, i) == SubSeq(seq, 1, i - 1) \o SubSeq(seq, i + 1, Len(seq))

(***************************************************************************)
(* C1.  For every input, scan_tokens terminates, and the last token of the *)
(* sequence it returns is the end-of-input token: kind EOF, empty lexeme,  *)
(* no literal.  Termination: inside a call a step can always be taken, and *)
(* every step lowers a measure that is never negative; the call is over    *)
(* when the position is back to "idle".                                    *)
(***************************************************************************)
C1_ReturnedEndsWithEOF ==
    \A k \in 1..Len(returned) :
        /\ returned[k] # <<>>
        /\ Last(returned[k]).type = "EOF"
        /\ Last(returned[k]).lexeme = <<>>
        /\ Last(returned[k]).literal.kind = "None"

\* a measure of the work left in a call: the characters still unread count
\* most, then the position in the code
PcRank ==
    CASE pc = "idle" -> 0
      [] pc = "scan_token" -> 1
      [] pc = "scan_tokens" -> 2
      [] pc = "number_parse" -> 3
      [] OTHER -> 4

Variant == 5 * (Len(source) - current) + PcRank

\* inside a call some step can be taken: nothing has panicked and the
\* scanner is at a position of the code (the guards of the actions of one
\* position cover every case)
StepEnabled ==
    /\ ~panicked
    /\ pc \in {"scan_tokens", "scan_token", "comment", "string", "number",
               "number_frac", "number_parse", "identifier"}

C1_ScanTerminatesWithEOF ==
    /\ [](C1_ReturnedEndsWithEOF /\ Variant >= 0)
    /\ [](pc # "idle" => StepEnabled)
    /\ [][pc # "idle" => Variant' < Variant]_vars

\* a scan has returned for an input whose every character was an error
C1_Witness ==
    /\ FirstScanDone
    /\ Len(source) = MaxLen
    /\ Len(stderr) = Len(source)
    /\ returned[1] = <<EOFToken>>

(***************************************************************************)
(* C2.  A second call of scan_tokens on the same Scanner returns exactly   *)
(* the sequence the first call returned.                                   *)
(***************************************************************************)
C2_SecondCallIsNoOp ==
    Len(returned) >= 2 => returned[2] = returned[1]

(***************************************************************************)
(* C3.  As claimed: when scan_token meets the unexpected character `@`,    *)
(* the scan returns the token sequence of the input with that `@` deleted. *)
(***************************************************************************)
C3_AsIfDeleted ==
    (Dispatching("@") /\ calls = 1)
        => Run(Sc).returned[1] = ScanOf(DeleteAt(source, current + 1))

(***************************************************************************)
(* C3, amended.  When scan_token meets a character that starts no lexeme,  *)
(* such as `@`, the scan returns the token sequence of the input with that *)
(* character replaced by a space.                                          *)
(***************************************************************************)
C3_AsIfReplacedBySpace ==
    \A c \in {"@", SUP2, BACKSLASH} :
        (Dispatching(c) /\ calls = 1)
            => Run(Sc).returned[1] = ScanOf(ReplaceAt(source, current + 1, SPACE))

\* an `@` between two letters is being read: two identifiers will come of it
C3_Witness ==
    /\ Dispatching("@")
    /\ calls = 1
    /\ current >= 1
    /\ current + 2 <= Len(source)
    /\ is_alphabetic(source[current])
    /\ is_alphabetic(source[current + 2])
    /\ Len(Run(Sc).returned[1]) = Len(tokens) + 2

(***************************************************************************)
(* C4.  Every token but end-of-input has as lexeme a non-empty span        *)
(* source[start..current]; the spans of successive tokens start at         *)
(* strictly increasing positions and each starts at or after the end of    *)
(* the one before.  The end-of-input tokens follow all the others.         *)
(***************************************************************************)
C4_TokensAreDisjointSpans ==
    /\ Len(spans) <= Len(tokens)
    /\ \A i \in 1..Len(tokens) :
          IF i <= Len(spans)
          THEN /\ tokens[i].type # "EOF"
               /\ 0 <= spans[i][1]
               /\ spans[i][1] < spans[i][2]
               /\ spans[i][2] <= Len(source)
               /\ tokens[i].lexeme = SubSeq(source, spans[i][1] + 1, spans[i][2])
               /\ i > 1 => /\ spans[i - 1][1] < spans[i][1]
                           /\ spans[i - 1][2] <= spans[i][1]
          ELSE tokens[i] = EOFToken

\* a scan has returned three tokens, the second right after the first
C4_Witness ==
    /\ FirstScanDone
    /\ Len(spans) >= 2
    /\ spans[1][2] = spans[2][1]
    /\ Len(returned[1]) = Len(spans) + 1

(***************************************************************************)
(* The place of a character with respect to strings and comments, read     *)
(* off the source alone.  ModeAfter(src, i) is the mode after the first i  *)
(* characters: "code", "slash" (code, just after a `/`), "string" (inside  *)
(* an open string) or "comment".                                           *)
(***************************************************************************)
RECURSIVE ModeAfter(_, _)
ModeAfter(src, i) ==
    IF i = 0 THEN "code"
    ELSE LET before == ModeAfter(src, i - 1)
             c == src[i]
         IN  CASE before = "string" -> IF c = QUOTE THEN "code" ELSE "string"
               [] before = "comment" -> IF c = NL THEN "code" ELSE "comment"
               [] before = "slash" /\ c = "/" -> "comment"
               [] OTHER -> IF c = QUOTE THEN "string"
                           ELSE IF c = "/" THEN "slash"
                           ELSE "code"

OutsideStringsAndComments(i) == ModeAfter(source, i - 1) \in {"code", "slash"}

\* the character at i follows a letter or `_` through letters, numbers and `_`
ContinuesIdentifier(i) ==
    \E j \in 1..(i - 1) :
        /\ is_alphabetic(source[j]) \/ source[j] = "_"
        /\ \A k \in j..i : is_alphanumeric(source[k]) \/ source[k] = "_"

UnexpectedErrors ==
    {i \in 1..Len(stderr) : stderr[i].message = "Unexpected character."}

(***************************************************************************)
(* C5.  As claimed: an input with k characters that start no lexeme,       *)
(* outside strings and comments, yields k "Unexpected character." errors.  *)
(***************************************************************************)
C5_OneErrorPerSuchCharacter ==
    FirstScanDone =>
        Cardinality(UnexpectedErrors) =
            Cardinality({i \in 1..Len(source) :
                            /\ StartsNoLexeme(source[i])
                            /\ OutsideStringsAndComments(i)})

(***************************************************************************)
(* C5, amended.  When scan_token meets a character that starts no lexeme,  *)
(* it reports one "Unexpected character." error at the line of that        *)
(* character, appends no token, consumes that one character, and the scan  *)
(* resumes at the next one.  An input with k such characters outside       *)
(* strings and comments, not counting those that continue an identifier    *)
(* (a non-ASCII number after a letter), yields k such errors.              *)
(***************************************************************************)
C5_UnexpectedCharacterSkipped ==
    /\ [][(pc = "scan_token" /\ StartsNoLexeme(CharAt(Sc, current)))
            => /\ stderr' = Append(stderr, UnexpectedCharacter(line_no))
               /\ line_no = 1 + NewlinesIn(SubSeq(source, 1, current))
               /\ had_error'
               /\ tokens' = tokens
               /\ current' = current + 1
               /\ pc' = "scan_tokens"]_vars
    /\ [](FirstScanDone =>
            Cardinality(UnexpectedErrors) =
                Cardinality({i \in 1..Len(source) :
                                /\ StartsNoLexeme(source[i])
                                /\ OutsideStringsAndComments(i)
                                /\ ~ContinuesIdentifier(i)}))

\* two errors in one pass, on different lines, with a token between them
C5_Witness ==
    /\ FirstScanDone
    /\ stderr = <<UnexpectedCharacter(1), UnexpectedCharacter(2)>>
    /\ Len(returned[1]) = 2

(***************************************************************************)
(* C6.  When a `"` is open and no `"` follows before the end of the input, *)
(* string() consumes all the remaining input, appends no token, and        *)
(* reports one "Unterminated string." error, the only one of the scan, at  *)
(* the line of end-of-input (1 + the newlines of the whole source); the    *)
(* scan then returns the tokens that preceded the quote and end-of-input.  *)
(***************************************************************************)
C6_UnterminatedString ==
    (/\ pc = "string"
     /\ calls = 1
     /\ \A k \in (current + 1)..Len(source) : source[k] # QUOTE)
        => LET end == Run(Sc)
           IN  /\ end.current = Len(source)
               /\ end.tokens = Append(tokens, EOFToken)
               /\ end.returned = <<Append(tokens, EOFToken)>>
               /\ end.stderr =
                      Append(stderr, UnterminatedString(1 + NewlinesIn(source)))
               /\ \A i \in 1..Len(stderr) : stderr[i].message # "Unterminated string."
               /\ end.had_error

\* a token, then a string left open over two lines: the error is at line 3
C6_Witness ==
    /\ FirstScanDone
    /\ Len(returned[1]) = 2
    /\ NewlinesIn(source) = 2
    /\ stderr = <<UnterminatedString(3)>>

(***************************************************************************)
(* C7.  For a terminated string literal, string() emits one String token   *)
(* whose lexeme runs from the opening quote to the first `"` after it,     *)
(* both included, and whose literal is the text strictly between the two;  *)
(* no escape is interpreted: a backslash before a `"` does not keep the    *)
(* string open.                                                            *)
(***************************************************************************)
C7_InString ==
    pc = "string" =>
        /\ source[start + 1] = QUOTE
        /\ start + 1 <= current
        /\ \A k \in (start + 2)..current : source[k] # QUOTE

C7_StringToken ==
    /\ []C7_InString
    /\ [][(pc = "string" /\ current < Len(source) /\ source[current + 1] = QUOTE)
            => /\ pc' = "scan_tokens"
               /\ current' = current + 1
               /\ stderr' = stderr
               /\ tokens' = Append(tokens,
                      Token("String",
                            SubSeq(source, start + 1, current + 1),
                            StrLiteral(SubSeq(source, start + 2, current))))]_vars
    /\ [][tokens' # tokens /\ Last(tokens').type = "String"
            => /\ pc = "string"
               /\ Last(tokens').literal.kind = "Str"
               /\ Last(tokens').lexeme =
                      <<QUOTE>> \o Last(tokens').literal.str \o <<QUOTE>>]_vars

\* a String token whose text ends with a backslash has been emitted
C7_Witness ==
    \E i \in 1..Len(tokens) :
        /\ tokens[i].type = "String"
        /\ tokens[i].literal.str # <<>>
        /\ Last(tokens[i].literal.str) = BACKSLASH
        /\ tokens[i].lexeme = <<QUOTE>> \o tokens[i].literal.str \o <<QUOTE>>

(***************************************************************************)
(* C8.  number() consumes a maximal run of ASCII digits, then a `.` only   *)
(* when an ASCII digit follows it, then a second maximal run of digits:    *)
(* `123.` gives Number `123` and Dot, `123.456` one Number, `1.5.3` gives  *)
(* Number `1.5`, Dot, Number `3`.                                          *)
(***************************************************************************)
AllDigits(text) == \A i \in 1..Len(text) : is_digit(text[i])

\* one or more digits
IsDigitRun(text) == text # <<>> /\ AllDigits(text)

\* one or more digits, a `.`, and (atLeast) or more digits
IsDigitsDotDigits(text, atLeast) ==
    \E d \in 2..Len(text) :
        /\ text[d] = "."
        /\ IsDigitRun(SubSeq(text, 1, d - 1))
        /\ AllDigits(SubSeq(text, d + 1, Len(text)))
        /\ Len(text) - d >= atLeast

Consumed == SubSeq(source, start + 1, current)

C8_NumberShape ==
    /\ pc = "number" => IsDigitRun(Consumed)
    /\ pc = "number_frac" =>
          /\ IsDigitsDotDigits(Consumed, 0)
          /\ IsDigitsDotDigits(Consumed, 1) \/ is_digit(peek(Sc))
    /\ pc = "number_parse" =>
          /\ IsDigitRun(Consumed) \/ IsDigitsDotDigits(Consumed, 1)
          /\ ~is_digit(peek(Sc))
          /\ IsDigitRun(Consumed) => ~(peek(Sc) = "." /\ is_digit(peek_next(Sc)))

C8_NumberExamples ==
    FirstScanDone =>
        /\ source = <<"1", "2", "3", ".">> =>
              returned[1] = <<Token("Number", <<"1", "2", "3">>, NumberLiteral(<<123, 0>>)),
                              Token("Dot", <<".">>, NoLiteral),
                              EOFToken>>
        /\ source = <<"1", "2", "3", ".", "4", "5", "6">> =>
              returned[1] = <<Token("Number", source, NumberLiteral(<<123456, 3>>)),
                              EOFToken>>
        /\ source = <<"1", ".", "5", ".", "3">> =>
              returned[1] = <<Token("Number", <<"1", ".", "5">>, NumberLiteral(<<15, 1>>)),
                              Token("Dot", <<".">>, NoLiteral),
                              Token("Number", <<"3">>, NumberLiteral(<<3, 0>>)),
                              EOFToken>>

C8_NumberLexeme == C8_NumberShape /\ C8_NumberExamples

\* `1.5.3` has been scanned
C8_Witness ==
    /\ FirstScanDone
    /\ source = <<"1", ".", "5", ".", "3">>
    /\ Len(returned[1]) = 4

(***************************************************************************)
(* C9.  For each of `!`, `=`, `<`, `>`: if the next unread character is    *)
(* `=`, scan_token emits the two-character token and consumes both;        *)
(* otherwise, at any other character or at the end of the input, it emits  *)
(* the one-character token and leaves the next character unconsumed, to be *)
(* the first character of the next scan step.                              *)
(***************************************************************************)
C9_Kinds ==
    {<<"!", "BangEqual", "Bang">>, <<"=", "EqualEqual", "Equal">>,
     <<"<", "LessEqual", "Less">>, <<">", "GreaterEqual", "Greater">>}

C9_OperatorLookahead ==
    /\ [](pc = "scan_token" => start = current /\ current < Len(source))
    /\ [][\A k \in C9_Kinds :
            (pc = "scan_token" /\ source[current + 1] = k[1])
                => /\ pc' = "scan_tokens"
                   /\ stderr' = stderr
                   /\ IF current + 2 <= Len(source) /\ source[current + 2] = "="
                      THEN /\ tokens' = Append(tokens, Token(k[2], <<k[1], "=">>, NoLiteral))
                           /\ current' = current + 2
                      ELSE /\ tokens' = Append(tokens, Token(k[3], <<k[1]>>, NoLiteral))
                           /\ current' = current + 1]_vars

\* `!` before a character that is not `=`, and `<=`, have both been scanned
C9_Witness ==
    /\ FirstScanDone
    /\ Len(returned[1]) = 4
    /\ returned[1][1] = Token("Bang", <<"!">>, NoLiteral)
    /\ returned[1][2] = Token("LessEqual", <<"<", "=">>, NoLiteral)
    /\ returned[1][3] = Token("Greater", <<">">>, NoLiteral)

(***************************************************************************)
(* C10.  A `/` right before a `/` starts a comment: the characters up to   *)
(* the next newline, or to the end of the input, are consumed, with no     *)
(* token and no error for any of them; a `/` not before a `/` emits one    *)
(* Slash token.  The newline that ends the comment is left to the next     *)
(* scan step, which counts it once.                                        *)
(***************************************************************************)
C10_CommentExample ==
    (FirstScanDone
     /\ source = <<"/", "/", " ", "c", "o", "m", "m", "e", "n", "t", NL, "1", "2", "3">>)
        => /\ returned[1] = <<Token("Number", <<"1", "2", "3">>, NumberLiteral(<<123, 0>>)),
                              EOFToken>>
           /\ line_no = 2
           /\ stderr = <<>>

C10_Comment ==
    /\ []C10_CommentExample
    /\ [](pc = "comment" =>
            /\ line_no = 1 + NewlinesIn(SubSeq(source, 1, start))
            /\ \A k \in (start + 1)..current : source[k] # NL)
    /\ [][(pc = "scan_token" /\ source[current + 1] = "/")
            => /\ stderr' = stderr
               /\ line_no' = line_no
               /\ IF current + 2 <= Len(source) /\ source[current + 2] = "/"
                  THEN /\ pc' = "comment"
                       /\ current' = current + 2
                       /\ tokens' = tokens
                  ELSE /\ pc' = "scan_tokens"
                       /\ current' = current + 1
                       /\ tokens' = Append(tokens, Token("Slash", <<"/">>, NoLiteral))]_vars
    /\ [][pc = "comment"
            => /\ tokens' = tokens
               /\ stderr' = stderr
               /\ line_no' = line_no
               /\ IF current < Len(source) /\ source[current + 1] # NL
                  THEN pc' = "comment" /\ current' = current + 1
                  ELSE pc' = "scan_tokens" /\ current' = current]_vars
    /\ [][(pc = "scan_token" /\ source[current + 1] = NL)
            => /\ line_no' = line_no + 1
               /\ current' = current + 1
               /\ tokens' = tokens
               /\ pc' = "scan_tokens"]_vars

\* a comment holding `@` and `"` was skipped, its newline counted, and the
\* token after it scanned
C10_Witness ==
    /\ FirstScanDone
    /\ source = <<"/", "/", "@", QUOTE, NL, "1">>
    /\ stderr = <<>>
    /\ line_no = 2
    /\ Len(returned[1]) = 2

(***************************************************************************)
(* C11.  identifier() consumes the maximal run of letters, digits and      *)
(* underscores and emits one token with no literal; its kind is a keyword  *)
(* kind exactly when the whole lexeme is, case-sensitively, one of the     *)
(* sixteen reserved words, each with its own kind; any other lexeme        *)
(* (`And`, `orchid`, `nil_`) gives Identifier.  The digits are those of    *)
(* any script: identifier() asks is_alphanumeric.                          *)
(***************************************************************************)
C11_ReservedWords ==
    {<< <<"a", "n", "d">>, "And" >>, << <<"c", "l", "a", "s", "s">>, "Class" >>,
     << <<"e", "l", "s", "e">>, "Else" >>, << <<"f", "a", "l", "s", "e">>, "False" >>,
     << <<"f", "o", "r">>, "For" >>, << <<"f", "u", "n">>, "Fun" >>,
     << <<"i", "f">>, "If" >>, << <<"n", "i", "l">>, "Nil" >>,
     << <<"o", "r">>, "Or" >>, << <<"p", "r", "i", "n", "t">>, "Print" >>,
     << <<"r", "e", "t", "u", "r", "n">>, "Return" >>,
     << <<"s", "u", "p", "e", "r">>, "Super" >>, << <<"t", "h", "i", "s">>, "This" >>,
     << <<"t", "r", "u", "e">>, "True" >>, << <<"v", "a", "r">>, "Var" >>,
     << <<"w", "h", "i", "l", "e">>, "While" >>}

C11_KindOf(text) ==
    IF \E w \in C11_ReservedWords : w[1] = text
    THEN (CHOOSE w \in C11_ReservedWords : w[1] = text)[2]
    ELSE "Identifier"

C11_WordChar(c) ==
    c \in Lowercase \cup Uppercase \cup AsciiDigits \cup {SUP2, "_"}

C11_Examples ==
    FirstScanDone =>
        /\ \A w \in C11_ReservedWords :
              source = w[1] => returned[1] = <<Token(w[2], w[1], NoLiteral), EOFToken>>
        /\ source \in {<<"A", "n", "d">>, <<"o", "r", "c", "h", "i", "d">>,
                       <<"n", "i", "l", "_">>}
              => returned[1] = <<Token("Identifier", source, NoLiteral), EOFToken>>

C11_IdentifierOrKeyword ==
    /\ Cardinality(C11_ReservedWords) = 16
    /\ Cardinality({w[2] : w \in C11_ReservedWords}) = 16
    /\ []C11_Examples
    /\ [](pc = "identifier" =>
            /\ start < current
            /\ source[start + 1] \in Lowercase \cup Uppercase \cup {"_"}
            /\ \A k \in (start + 1)..current : C11_WordChar(source[k]))
    /\ [][pc = "identifier"
            => IF current < Len(source) /\ C11_WordChar(source[current + 1])
               THEN pc' = "identifier" /\ current' = current + 1 /\ tokens' = tokens
               ELSE /\ pc' = "scan_tokens"
                    /\ current' = current
                    /\ tokens' = Append(tokens,
                           Token(C11_KindOf(Consumed), Consumed, NoLiteral))]_vars

\* a reserved word, a longer word that begins with it and the same word in
\* capitals have been scanned in one input
C11_Witness ==
    /\ FirstScanDone
    /\ Len(returned[1]) = 4
    /\ returned[1][1] = Token("If", <<"i", "f">>, NoLiteral)
    /\ returned[1][2] = Token("Identifier", <<"i", "f", "f">>, NoLiteral)
    /\ returned[1][3] = Token("Identifier", <<"I", "F">>, NoLiteral)

(***************************************************************************)
(* C12.  The line counter starts at 1 and advances once per newline        *)
(* consumed, be it bare, after a comment or inside a string: in every      *)
(* state, so at the start of every scan_token step and at the end of the   *)
(* scan, line_no = 1 + the newlines of source[0..current]; every error is  *)
(* reported with the line so counted.                                      *)
(***************************************************************************)
C12_LinesCounted == line_no = 1 + NewlinesIn(SubSeq(source, 1, current))

C12_LineCounter ==
    /\ [](C12_LinesCounted /\ (calls = 0 => line_no = 1))
    /\ [][stderr' # stderr
            => /\ Len(stderr') = Len(stderr) + 1
               /\ Last(stderr').line = 1 + NewlinesIn(SubSeq(source, 1, current'))]_vars

\* a newline after a comment, one in a string and a bare one, then an error
C12_Witness ==
    /\ FirstScanDone
    /\ source = <<"/", "/", NL, QUOTE, NL, QUOTE, NL, "@">>
    /\ stderr = <<UnexpectedCharacter(4)>>
    /\ line_no = 4

(***************************************************************************)
(* C15.  In every state of a scan, those inside string(), number(),        *)
(* identifier() and the comment loop included,                             *)
(* 0 <= start <= current <= length(source).                                *)
(***************************************************************************)
C15_CursorBounds ==
    /\ 0 <= start
    /\ start <= current
    /\ current <= Len(source)

\* inside the fraction of a number that is neither first nor last
C15_Witness ==
    /\ pc = "number_frac"
    /\ 0 < start
    /\ start + 2 <= current
    /\ current < Len(source)

(***************************************************************************)
(* C16.  "Invalid numeric literal." is never reported: the text number()   *)
(* parses is one or more ASCII digits, optionally followed by one `.` and  *)
(* one or more ASCII digits, and every entry into number() ends with one   *)
(* Number token appended and no error.                                     *)
(***************************************************************************)
C16_NumberAlwaysParses ==
    /\ [](\A i \in 1..Len(stderr) : stderr[i].message # "Invalid numeric literal.")
    /\ [][(pc \in {"number", "number_frac"})
            => /\ pc' \in {"number", "number_frac", "number_parse"}
               /\ tokens' = tokens
               /\ stderr' = stderr]_vars
    /\ [][pc = "number_parse"
            => /\ IsDigitRun(Consumed) \/ IsDigitsDotDigits(Consumed, 1)
               /\ stderr' = stderr
               /\ Len(tokens') = Len(tokens) + 1
               /\ Last(tokens').type = "Number"
               /\ Last(tokens').lexeme = Consumed
               /\ Last(tokens').literal.kind = "Number"
               /\ pc' = "scan_tokens"]_vars

\* `123.456` has been parsed to its value
C16_Witness ==
    /\ FirstScanDone
    /\ source = <<"1", "2", "3", ".", "4", "5", "6">>
    /\ returned[1][1].literal = NumberLiteral(<<123456, 3>>)
    /\ stderr = <<>>

(***************************************************************************)
(* C17.  The token list is append-only: a step leaves the tokens already   *)
(* there unchanged and in place and appends at most one; a scan_token step *)
(* ends when it has appended one; whitespace, newlines, comments and the   *)
(* error paths append none; end-of-input is appended only once the cursor  *)
(* is at the end of the source.                                            *)
(***************************************************************************)
C17_AppendOnly ==
    /\ [][/\ Len(tokens') \in {Len(tokens), Len(tokens) + 1}
          /\ SubSeq(tokens', 1, Len(tokens)) = tokens]_vars
    /\ [](pc \notin {"idle", "scan_tokens"} =>
            /\ Len(tokens) = Len(spans)
            /\ \A i \in 1..Len(spans) : spans[i][2] <= start)
    /\ [][tokens' # tokens => pc' \in {"scan_tokens", "idle"}]_vars
    /\ [][(\/ stderr' # stderr
           \/ pc = "comment"
           \/ pc = "scan_token" /\ CharAt(Sc, current) \in {SPACE, CR, TAB, NL})
            => tokens' = tokens]_vars
    /\ [][(tokens' # tokens /\ Last(tokens') = EOFToken)
            => /\ current = Len(source)
               /\ pc = "scan_tokens"
               /\ pc' = "idle"]_vars

\* five tokens and end-of-input, around a space and an error
C17_Witness ==
    /\ FirstScanDone
    /\ source = <<"v", "a", "r", SPACE, "x", "=", "1", "@", ";">>
    /\ Len(returned[1]) = 6
    /\ Len(stderr) = 1

(***************************************************************************)
(* C19.  No step indexes or slices the source out of bounds: the cursor    *)
(* moves only from a position inside the source, peek() and peek_next()    *)
(* give the sentinel at and past the end, and the slice of a string's      *)
(* value, source[start+1 .. current-1], has start+1 <= current-1, for `""` *)
(* too.                                                                    *)
(***************************************************************************)
C19_NoOutOfBounds ==
    /\ [](~panicked)
    /\ [](current >= Len(source) => peek(Sc) = NUL)
    /\ [](current + 1 >= Len(source) => peek_next(Sc) = NUL)
    /\ [][current' # current
            => /\ current < Len(source)
               /\ current' <= Len(source)]_vars
    /\ [][(pc = "string" /\ tokens' # tokens)
            => /\ start + 1 <= current' - 1
               /\ current' - 1 <= Len(source)]_vars

\* the empty string literal has been scanned
C19_Witness ==
    /\ FirstScanDone
    /\ source = <<QUOTE, QUOTE>>
    /\ returned[1] = <<Token("String", <<QUOTE, QUOTE>>, StrLiteral(<<>>)), EOFToken>>

(***************************************************************************)
(* C13.  had_error is a latch: false at the start, set by every reported   *)
(* error, reset by nothing, the next scans of prompt mode included; after  *)
(* a scan it is false exactly when no error has been reported since the    *)
(* reporter was created; main reads it once, when all the input has been   *)
(* processed.                                                              *)
(***************************************************************************)
ScanReturned == main_pc = "run" /\ pc = "idle"

C14_ExitStatusByScanErrors ==
    exit_status # NotExited =>
        exit_status = IF args_len > 2 THEN 64
                      ELSE IF stderr # <<>> THEN 65
                      ELSE 0

(***************************************************************************)
(* C14, amended.  The process ends with 64 when called with the wrong      *)
(* number of arguments, decided before any scanning; with 65 when the run  *)
(* produced one or more scan errors or its input could not be read; and    *)
(* with 0 otherwise.                                                       *)
(***************************************************************************)
C14_ExitStatus ==
    /\ exit_status \in {NotExited, 0, 64, 65}
    /\ exit_status # NotExited <=> main_pc = "exited"
    /\ exit_status # NotExited =>
          exit_status = IF args_len > 2 THEN 64
                        ELSE IF stderr # <<>> \/ io_error THEN 65
                        ELSE 0
    /\ exit_status = 64 =>
          /\ calls = 0
          /\ prompts = 0
          /\ printed = <<>>
          /\ flag_reads = 0

\* a file with a scan error has been run: 65
C14_Witness ==
    /\ exit_status = 65
    /\ args_len = 2
    /\ ~io_error
    /\ Len(stderr) >= 1
    /\ Len(printed) >= 2

(***************************************************************************)
(* C18.  As claimed: the prompt loop ends only when a read returns empty   *)
(* input.                                                                  *)
(***************************************************************************)
C18_EndsOnlyOnEmptyRead ==
    [][(main_pc = "prompt" /\ main_pc' = "check") => stdin = <<>>]_vars

(***************************************************************************)
(* C18, amended.  The prompt loop ends only when a read returns empty      *)
(* input, the stream being closed, or when the flush or the read fails; a  *)
(* line holding only its newline does not end it: every line read is       *)
(* scanned by a new Scanner whose line counter is back to 1, and the loop  *)
(* goes on after the scan.                                                 *)
(***************************************************************************)
C18_PromptLoop ==
    /\ [][(main_pc = "prompt" /\ main_pc' = "check")
            => stdin = <<>> \/ io_error']_vars
    /\ [][(main_pc = "prompt" /\ stdin # <<>> /\ ~io_error')
            => /\ main_pc' = "run"
               /\ source' # <<>>
               /\ source' \o stdin' = stdin
               /\ \A k \in 1..(Len(source') - 1) : source'[k] # NL
               /\ source'[Len(source')] = NL \/ stdin' = <<>>
               /\ pc' = "scan_tokens"
               /\ line_no' = 1
               /\ current' = 0
               /\ tokens' = <<>>
               /\ calls' = 1
               /\ had_error' = had_error]_vars
    /\ [][(main_pc = "run" /\ main_pc' # "run" /\ args_len # 2)
            => main_pc' = "prompt" /\ stdin' = stdin]_vars

\* a second blank line is about to be scanned, the counter back at 1
C18_Witness ==
    /\ main_pc = "run"
    /\ pc = "scan_tokens"
    /\ prompts = 2
    /\ source = <<NL>>
    /\ current = 0
    /\ line_no = 1
    /\ Len(printed) = 1

====
